---- MODULE Spec2Model ----
(***************************************************************************)
(* Model of benchmark_script.py: the interactive BenchmarkTool session,    *)
(* its two text parsers (extract_and_convert_time, process_massif_output)  *)
(* and the build verification.                                             *)
(*                                                                         *)
(* Text is a sequence of one-character strings.  The absent value None is  *)
(* the empty tuple <<>>; every present value is a non-empty tuple.         *)
(* Captured floats are kept exact: a time is <<whole seconds, fraction     *)
(* digits without trailing zeros>>, a memory size in GB is                 *)
(* <<bytes \div 2^30, bytes % 2^30>>.                                      *)
(***************************************************************************)
EXTENDS Integers, Sequences, FiniteSets, TLC

VARIABLES
    pc,                       \* "start" | "menu" | "exited" | "crashed"
    choice,                   \* the text read by input() in the last loop turn
    assigner_total_gb,        \* self.assigner_total_gb
    proof_total_gb,           \* self.proof_total_gb
    assigner_formatted_time,  \* self.assigner_formatted_time
    proof_formatted_time,     \* self.proof_formatted_time
    found,                    \* the build files the last step's verify_build found
    commands,                 \* the commands spawned by the last step, in order
    returncodes,              \* their exit statuses, in order
    output,                   \* the captured stream the last step parsed
    memory_table,             \* the table the last step parsed (local of run)
    printed,                  \* what the last step printed through display_results
    log                       \* the logging records of the last step

vars == <<pc, choice, assigner_total_gb, proof_total_gb, assigner_formatted_time,
          proof_formatted_time, found, commands, returncodes, output,
          memory_table, printed, log>>

results == <<assigner_total_gb, proof_total_gb, assigner_formatted_time,
             proof_formatted_time>>

None == <<>>

-----------------------------------------------------------------------------
(* Characters *)

Digits == {"0", "1", "2", "3", "4", "5", "6", "7", "8", "9"}

IsDigit(c) == c \in Digits

\* \s of the re module, on the characters the inputs use.
IsSpace(c) == c \in {" ", "\t"}

DigitVal(c) ==
    CASE c = "0" -> 0 [] c = "1" -> 1 [] c = "2" -> 2 [] c = "3" -> 3
      [] c = "4" -> 4 [] c = "5" -> 5 [] c = "6" -> 6 [] c = "7" -> 7
      [] c = "8" -> 8 [] c = "9" -> 9

\* int() of a non-empty string of decimal digits.
RECURSIVE int(_)
int(s) ==
    IF s = <<>> THEN 0
    ELSE 10 * int(SubSeq(s, 1, Len(s) - 1)) + DigitVal(s[Len(s)])

\* The first index >= i of s whose character is not a digit (Len(s)+1 if none).
RECURSIVE DigitsEnd(_, _)
DigitsEnd(s, i) ==
    IF i <= Len(s) /\ IsDigit(s[i]) THEN DigitsEnd(s, i + 1) ELSE i

\* The first index >= i of s whose character is not whitespace.
RECURSIVE SpaceEnd(_, _)
SpaceEnd(s, i) ==
    IF i <= Len(s) /\ IsSpace(s[i]) THEN SpaceEnd(s, i + 1) ELSE i

\* Whether s holds the characters of w from index i on.
StartsWithAt(s, i, w) ==
    /\ i + Len(w) - 1 <= Len(s)
    /\ \A k \in 1..Len(w) : s[i + k - 1] = w[k]

-----------------------------------------------------------------------------
(* extract_and_convert_time *)

elapsed == <<"e", "l", "a", "p", "s", "e", "d">>

\* The fraction digits of a float: trailing zeros carry no value.
RECURSIVE StripZeros(_)
StripZeros(s) ==
    IF s # <<>> /\ s[Len(s)] = "0" THEN StripZeros(SubSeq(s, 1, Len(s) - 1)) ELSE s

\* float() of "<digits>.<digits>", as <<whole, fraction digits>>.
float(whole, frac) == <<int(whole), StripZeros(frac)>>

\* int(minutes) * 60 + float(seconds)
total_seconds(minutes, whole, frac) ==
    <<int(minutes) * 60 + float(whole, frac)[1], float(whole, frac)[2]>>

\* The pattern (\d+):(\d+\.\d+)elapsed tried at index i: the groups it captures,
\* or <<>>.  Each \d+ is followed by a character that is no digit, so the only
\* candidate for it is the whole run of digits.
pattern(s, i) ==
    LET a == DigitsEnd(s, i)
        b == DigitsEnd(s, a + 1)
        c == DigitsEnd(s, b + 1)
    IN  IF /\ a > i /\ a <= Len(s) /\ s[a] = ":"
           /\ b > a + 1 /\ b <= Len(s) /\ s[b] = "."
           /\ c > b + 1 /\ StartsWithAt(s, c, elapsed)
        THEN <<SubSeq(s, i, a - 1), SubSeq(s, a + 1, b - 1), SubSeq(s, b + 1, c - 1)>>
        ELSE <<>>

\* re.search keeping the rightmost match.
re_search_rightmost(s, i) ==
    LET hits == {k \in i..Len(s) : pattern(s, k) # <<>>}
    IN  IF hits = {} THEN <<>>
        ELSE pattern(s, CHOOSE k \in hits : \A h \in hits : h <= k)

\* re.search: the match at the leftmost index that has one.
RECURSIVE re_search(_, _)
re_search(s, i) ==
    IF i > Len(s) THEN <<>>
    ELSE IF pattern(s, i) # <<>> THEN pattern(s, i)
    ELSE re_search(s, i + 1)

extract_and_convert_time(text) ==
    LET match == re_search(text, 1)
    IN  IF match # <<>>
        THEN total_seconds(match[1], match[2], match[3])
        ELSE None

-----------------------------------------------------------------------------
(* process_massif_output *)

\* output.split("\n")
RECURSIVE split_lines(_)
split_lines(s) ==
    LET nl == CHOOSE i \in 1..(Len(s) + 1) :
                  /\ (i <= Len(s) => s[i] = "\n")
                  /\ \A k \in 1..(i - 1) : s[k] # "\n"
    IN  IF nl > Len(s) THEN <<s>>
        ELSE <<SubSeq(s, 1, nl - 1)>> \o split_lines(SubSeq(s, nl + 1, Len(s)))

\* re.match(r"^\s*\d+\s+\d", line)
table_line(line) ==
    LET i == SpaceEnd(line, 1)
        j == DigitsEnd(line, i)
        k == SpaceEnd(line, j)
    IN  j > i /\ k > j /\ k <= Len(line) /\ IsDigit(line[k])

\* line.strip()
RECURSIVE rstrip(_)
rstrip(s) ==
    IF s # <<>> /\ IsSpace(s[Len(s)]) THEN rstrip(SubSeq(s, 1, Len(s) - 1)) ELSE s

strip(s) == rstrip(SubSeq(s, SpaceEnd(s, 1), Len(s)))

\* re.split(r"\s+", s)
RECURSIVE re_split(_)
re_split(s) ==
    LET sp == CHOOSE i \in 1..(Len(s) + 1) :
                  /\ (i <= Len(s) => IsSpace(s[i]))
                  /\ \A k \in 1..(i - 1) : ~IsSpace(s[k])
    IN  IF sp > Len(s) THEN <<s>>
        ELSE <<SubSeq(s, 1, sp - 1)>> \o re_split(SubSeq(s, SpaceEnd(s, sp), Len(s)))

\* .str.replace(',', '')
RECURSIVE remove_commas(_)
remove_commas(s) ==
    IF s = <<>> THEN <<>>
    ELSE (IF s[1] = "," THEN <<>> ELSE <<s[1]>>) \o remove_commas(Tail(s))

\* Whether .astype(int) converts the text (after the commas are removed).
is_int(s) == s # <<>> /\ \A k \in 1..Len(s) : IsDigit(s[k])

columns_to_sum == <<"time(i)", "total(B)", "useful-heap(B)", "extra-heap(B)", "stacks(B)">>

\* A row of the DataFrame.  The column n holds an int in a sample row and the
\* string 'Total' in the total row: [int, str] with the one that applies.
sample_n(k) == [is_int |-> TRUE, int |-> k, str |-> ""]
label_n(w)  == [is_int |-> FALSE, int |-> 0, str |-> w]

\* Lines 93-104: the rows appended for the lines that have at least 6 parts.
RECURSIVE parsed_tables(_)
parsed_tables(table_lines) ==
    IF table_lines = <<>> THEN <<>>
    ELSE LET parts == re_split(strip(Head(table_lines)))
         IN  (IF Len(parts) >= 6
              THEN << [n |-> sample_n(int(parts[1])),
                       cols |-> [c \in 1..5 |-> parts[c + 1]]] >>
              ELSE <<>>)
             \o parsed_tables(Tail(table_lines))

\* A column sum that leaves the first row out.
RECURSIVE column_sum_from_second(_, _)
column_sum_from_second(rows, c) ==
    IF Len(rows) <= 1 THEN 0
    ELSE rows[Len(rows)].cols[c] + column_sum_from_second(SubSeq(rows, 1, Len(rows) - 1), c)

\* df[col].sum() over the converted rows.
RECURSIVE column_sum(_, _)
column_sum(rows, c) ==
    IF rows = <<>> THEN 0 ELSE rows[1].cols[c] + column_sum(Tail(rows), c)

process_massif_output(text) ==
    LET lines == split_lines(text)
        table_lines == SelectSeq(lines, table_line)
        parsed == parsed_tables(table_lines)
        stripped == [r \in 1..Len(parsed) |->
                       [c \in 1..5 |-> remove_commas(parsed[r].cols[c])]]
        df == [r \in 1..Len(parsed) |->
                 [n |-> parsed[r].n, cols |-> [c \in 1..5 |-> int(stripped[r][c])]]]
        total_row == [n |-> label_n("Total"), cols |-> [c \in 1..5 |-> column_sum(df, c)]]
    IN  IF parsed = <<>>
        THEN \* an empty DataFrame has no column 'time(i)': line 108 raises
             [raised |-> "KeyError", rows |-> <<>>]
        ELSE IF \E r \in 1..Len(parsed), c \in 1..5 : ~is_int(stripped[r][c])
        THEN [raised |-> "ValueError", rows |-> <<>>]
        ELSE [raised |-> "", rows |-> Append(df, total_row)]

-----------------------------------------------------------------------------
(* The session: BenchmarkTool *)

GiB == 1073741824

required_files == <<"template.ll", "template.crct", "template.tbl">>

Files == {required_files[k] : k \in 1..Len(required_files)}

\* A logging record; files is the list an error names (else empty).
Error(msg, files) == [level |-> "error", msg |-> msg, files |-> files]
Info(msg) == [level |-> "info", msg |-> msg, files |-> <<>>]

BuildFailed ==
    Error("Build verification failed. Please ensure the zkllvm-template is correctly built before proceeding.", <<>>)

Incomplete ==
    Error("Benchmark results are incomplete. Please run the benchmark first.", <<>>)

\* verify_build stopping at the first missing file.
verify_build_first_missing(exists) ==
    LET missing_files == SelectSeq(required_files, LAMBDA f : f \notin exists)
    IN  IF missing_files # <<>>
        THEN [ok |-> FALSE,
              log |-> <<Error("Missing required build files", <<missing_files[1]>>)>>]
        ELSE [ok |-> TRUE, log |-> <<>>]

\* verify_build, given the set of files that exist under build/src.
verify_build(exists) ==
    LET missing_files == SelectSeq(required_files, LAMBDA f : f \notin exists)
    IN  IF missing_files # <<>>
        THEN [ok |-> FALSE,
              log |-> <<Error("Missing required build files", missing_files)>>]
        ELSE [ok |-> TRUE, log |-> <<>>]

\* The command lines the measure_* methods build: the wrapper, the binary it
\* runs and the profiler file it names.
measure_assigner_heap_allocation ==
    [tool |-> "valgrind", binary |-> "assigner", file |-> "assigner_memory_bench"]

measure_proof_generation_heap_allocation ==
    [tool |-> "valgrind", binary |-> "proof-generator-single-threaded",
     file |-> "proof_memory_bench"]

measure_assigner_execution_time ==
    [tool |-> "time", binary |-> "assigner", file |-> ""]

measure_proof_generation_execution_time ==
    [tool |-> "time", binary |-> "proof-generator-single-threaded", file |-> ""]

\* parse_memory_usage's command: ms_print <file_name>
ms_print(file_name) == [tool |-> "ms_print", binary |-> "", file |-> file_name]

\* What subprocess.run can hand back: an exit status and the two streams.
ReturnCodes == {0, 1}

Completed(stdouts, stderrs) ==
    [returncode : ReturnCodes, stdout : stdouts, stderr : stderrs]

\* run_command: both streams whatever the exit status, and one logging record.
run_command(result) ==
    [streams |-> <<result.stdout, result.stderr>>,
     log |-> IF result.returncode # 0
             THEN <<Error("Command failed with error", <<>>)>>
             ELSE <<Info("Command output")>>]

\* bytes / (2**30), exact: <<whole GB, remaining bytes>>.
total_gb(total_bytes) == <<total_bytes \div GiB, total_bytes % GiB>>

\* f"{gb:.2f}": <<whole, hundredths>>, rounded to nearest, ties to even.
\* remaining * 100 is split in two halves of 15 bits to stay within 32 bits.
format_2f(gb) ==
    LET half == 32768
        hi == gb[2] \div half
        lo == gb[2] % half
        x == (hi * 100) + ((lo * 100) \div half)
        floor == x \div half
        rest == ((x % half) * half) + ((lo * 100) % half)
        up == (rest * 2 > GiB) \/ ((rest * 2 = GiB) /\ (floor % 2 = 1))
        hundredths == IF up THEN floor + 1 ELSE floor
    IN  IF hundredths = 100 THEN <<gb[1] + 1, 0>> ELSE <<gb[1], hundredths>>

\* display_results testing only the two memory fields.
display_results_memory_only(a_gb, a_time, p_gb, p_time) ==
    IF \E value \in {a_gb, p_gb} : value = None
    THEN [printed |-> <<>>, log |-> <<Incomplete>>]
    ELSE [printed |-> << [subject |-> "1. Assigner", memory |-> format_2f(a_gb),
                          time |-> a_time],
                         [subject |-> "2. Proof", memory |-> format_2f(p_gb),
                          time |-> p_time] >>,
          log |-> <<>>]

\* display_results: what it prints and what it logs.
display_results(a_gb, a_time, p_gb, p_time) ==
    IF \E value \in {a_gb, a_time, p_gb, p_time} : value = None
    THEN [printed |-> <<>>, log |-> <<Incomplete>>]
    ELSE [printed |-> << [subject |-> "1. Assigner", memory |-> format_2f(a_gb),
                          time |-> a_time],
                         [subject |-> "2. Proof", memory |-> format_2f(p_gb),
                          time |-> p_time] >>,
          log |-> <<>>]

NoTable == [raised |-> "", rows |-> <<>>]

Init ==
    /\ pc = "start"
    /\ choice = ""
    /\ assigner_total_gb = None
    /\ proof_total_gb = None
    /\ assigner_formatted_time = None
    /\ proof_formatted_time = None
    /\ found = {}
    /\ commands = <<>>
    /\ returncodes = <<>>
    /\ output = <<>>
    /\ memory_table = NoTable
    /\ printed = <<>>
    /\ log = <<>>

\* What one step leaves behind besides the result fields, pc and found.
Turn(ch, cmds, rcs, out, table, pr, lg) ==
    /\ choice' = ch
    /\ commands' = cmds
    /\ returncodes' = rcs
    /\ output' = out
    /\ memory_table' = table
    /\ printed' = pr
    /\ log' = lg

\* The start entering the loop whatever verify_build returned.
Start_unchecked ==
    /\ pc = "start"
    /\ \E exists \in SUBSET Files :
         LET v == verify_build(exists)
         IN  /\ found' = exists
             /\ pc' = "menu"
             /\ Turn("", <<>>, <<>>, <<>>, NoTable, <<>>,
                     IF v.ok THEN v.log ELSE v.log \o <<BuildFailed>>)
    /\ UNCHANGED results

\* run, lines 205-207: the build check before the loop.
Start ==
    /\ pc = "start"
    /\ \E exists \in SUBSET Files :
         LET v == verify_build(exists)
         IN  /\ found' = exists
             /\ pc' = IF v.ok THEN "menu" ELSE "exited"
             /\ Turn("", <<>>, <<>>, <<>>, NoTable, <<>>,
                     IF v.ok THEN v.log ELSE v.log \o <<BuildFailed>>)
    /\ UNCHANGED results

\* choice == '1'
VerifyBuild ==
    /\ pc = "menu"
    /\ \E exists \in SUBSET Files :
         LET v == verify_build(exists)
         IN  /\ found' = exists
             /\ Turn("1", <<>>, <<>>, <<>>, NoTable, <<>>,
                     IF v.ok THEN <<Info("Build verification succeeded.")>>
                     ELSE v.log \o <<BuildFailed>>)
    /\ UNCHANGED <<pc, results>>

\* Lines 225-229 and 232-236: profile, render the report, parse it, keep the
\* last row's total(B) in gigabytes.  An exception of the parser leaves run().
MeasureHeap(ch, measure, streams, done) ==
    \E profiled \in Completed({<<>>}, {<<>>}), rendered \in Completed(streams, {<<>>}) :
        LET first == run_command(profiled)
            second == run_command(rendered)
            table == process_massif_output(second.streams[1])
            cmds == <<measure, ms_print(measure.file)>>
            rcs == <<profiled.returncode, rendered.returncode>>
        IN  /\ pc' = IF table.raised # "" THEN "crashed" ELSE pc
            /\ Turn(ch, cmds, rcs, second.streams[1], table, <<>>,
                    IF table.raised # "" THEN first.log \o second.log
                    ELSE first.log \o second.log \o <<Info(done)>>)
            /\ found' = {}

\* choice == '2'
MeasureAssignerHeap(streams) ==
    /\ pc = "menu"
    /\ MeasureHeap("2", measure_assigner_heap_allocation, streams,
                   "Assigner heap allocation measured.")
    /\ assigner_total_gb' =
         IF memory_table'.raised # "" THEN assigner_total_gb
         ELSE total_gb(memory_table'.rows[Len(memory_table'.rows)].cols[2])
    /\ UNCHANGED <<proof_total_gb, assigner_formatted_time, proof_formatted_time>>

\* Choice 3 storing into the assigner's field.
MeasureProofHeap_wrong_field(streams) ==
    /\ pc = "menu"
    /\ MeasureHeap("3", measure_proof_generation_heap_allocation, streams,
                   "Proof generation heap allocation measured.")
    /\ assigner_total_gb' =
         IF memory_table'.raised # "" THEN assigner_total_gb
         ELSE total_gb(memory_table'.rows[Len(memory_table'.rows)].cols[2])
    /\ UNCHANGED <<proof_total_gb, assigner_formatted_time, proof_formatted_time>>

\* choice == '3'
MeasureProofHeap(streams) ==
    /\ pc = "menu"
    /\ MeasureHeap("3", measure_proof_generation_heap_allocation, streams,
                   "Proof generation heap allocation measured.")
    /\ proof_total_gb' =
         IF memory_table'.raised # "" THEN proof_total_gb
         ELSE total_gb(memory_table'.rows[Len(memory_table'.rows)].cols[2])
    /\ UNCHANGED <<assigner_total_gb, assigner_formatted_time, proof_formatted_time>>

\* Lines 239-241 and 243-245: run the timed command, keep what the extractor
\* finds in its stderr.
MeasureTime(ch, measure, streams, done) ==
    \E timed \in Completed({<<>>}, streams) :
        LET ran == run_command(timed)
        IN  /\ Turn(ch, <<measure>>, <<timed.returncode>>, ran.streams[2], NoTable,
                    <<>>, ran.log \o <<Info(done)>>)
            /\ found' = {}
            /\ UNCHANGED pc

\* choice == '4'
MeasureAssignerTime(streams) ==
    /\ pc = "menu"
    /\ MeasureTime("4", measure_proof_generation_execution_time, streams,
                   "Assigner execution time measured.")
    /\ assigner_formatted_time' = extract_and_convert_time(output')
    /\ UNCHANGED <<assigner_total_gb, proof_total_gb, proof_formatted_time>>

\* choice == '5'
MeasureProofTime(streams) ==
    /\ pc = "menu"
    /\ MeasureTime("5", measure_proof_generation_execution_time, streams,
                   "Proof generation execution time measured.")
    /\ proof_formatted_time' = extract_and_convert_time(output')
    /\ UNCHANGED <<assigner_total_gb, proof_total_gb, assigner_formatted_time>>

\* choice == '6'
DisplayResults ==
    /\ pc = "menu"
    /\ LET shown == display_results(assigner_total_gb, assigner_formatted_time,
                                    proof_total_gb, proof_formatted_time)
       IN  Turn("6", <<>>, <<>>, <<>>, NoTable, shown.printed,
                <<Info("Printing Benchmark Details:")>> \o shown.log)
    /\ found' = {}
    /\ UNCHANGED <<pc, results>>

\* choice == '7'
Exit ==
    /\ pc = "menu"
    /\ pc' = "exited"
    /\ Turn("7", <<>>, <<>>, <<>>, NoTable, <<>>, <<Info("Exiting.")>>)
    /\ found' = {}
    /\ UNCHANGED results

\* Any other text: no branch of the if/elif chain runs, the menu is shown again.
OtherChoices == {"8", "x"}

Unrecognised ==
    /\ pc = "menu"
    /\ \E ch \in OtherChoices : Turn(ch, <<>>, <<>>, <<>>, NoTable, <<>>, <<>>)
    /\ found' = {}
    /\ UNCHANGED <<pc, results>>

-----------------------------------------------------------------------------
(* The texts the external commands hand back *)

MaxLines == 2
MaxTokens == 2

\* '0 1 1,000 800 150 50'
line_first ==
    <<"0", " ", "1", " ", "1", ",", "0", "0", "0", " ", "8", "0", "0", " ", "1", "5",
      "0", " ", "5", "0">>

\* '1 2 2,000 1,600 300 100'
line_second ==
    <<"1", " ", "2", " ", "2", ",", "0", "0", "0", " ", "1", ",", "6", "0", "0", " ",
      "3", "0", "0", " ", "1", "0", "0">>

\* '  2<tab>3 536,870,912  9 9 9 '
line_half_gib ==
    <<" ", " ", "2", "\t", "3", " ", "5", "3", "6", ",", "8", "7", "0", ",", "9",
      "1", "2", " ", " ", "9", " ", "9", " ", "9", " ">>

\* '3 4 7 1 1'
line_five_parts ==
    <<"3", " ", "4", " ", "7", " ", "1", " ", "1">>

\* 'n time(i) total(B)'
line_header ==
    <<"n", " ", "t", "i", "m", "e", "(", "i", ")", " ", "t", "o", "t", "a", "l", "(",
      "B", ")">>

\* '5 6 1x 0 0 0'
line_not_a_number ==
    <<"5", " ", "6", " ", "1", "x", " ", "0", " ", "0", " ", "0">>

\* '6 7 1 2 3 4 KB'
line_seven_parts ==
    <<"6", " ", "7", " ", "1", " ", "2", " ", "3", " ", "4", " ", "K", "B">>

\* '1,0 2 3 4 5 6'
line_comma_first ==
    <<"1", ",", "0", " ", "2", " ", "3", " ", "4", " ", "5", " ", "6">>

ReportLines ==
    {<<>>, line_first, line_second, line_half_gib, line_five_parts, line_header,
     line_not_a_number, line_seven_parts, line_comma_first}

\* The texts of at most n lines of ReportLines.
RECURSIVE ReportsOf(_)
ReportsOf(n) ==
    IF n <= 1 THEN ReportLines
    ELSE ReportsOf(n - 1) \cup
         {t \o <<"\n">> \o l : t \in ReportsOf(n - 1), l \in ReportLines}

Reports == ReportsOf(MaxLines)

\* '0:12.50elapsed'
time_plain ==
    <<"0", ":", "1", "2", ".", "5", "0", "e", "l", "a", "p", "s", "e", "d">>

\* '1:02.5elapsed'
time_minutes ==
    <<"1", ":", "0", "2", ".", "5", "e", "l", "a", "p", "s", "e", "d">>

\* '1:02:03elapsed'
time_hours ==
    <<"1", ":", "0", "2", ":", "0", "3", "e", "l", "a", "p", "s", "e", "d">>

\* '3:4elapsed'
time_no_fraction ==
    <<"3", ":", "4", "e", "l", "a", "p", "s", "e", "d">>

\* '5:6.7elapse'
time_cut ==
    <<"5", ":", "6", ".", "7", "e", "l", "a", "p", "s", "e">>

\* ':8.9elapsed'
time_no_minutes ==
    <<":", "8", ".", "9", "e", "l", "a", "p", "s", "e", "d">>

TimeTokens ==
    {time_plain, time_minutes, time_hours, time_no_fraction, time_cut, time_no_minutes}

TimeSeparators == {<<>>, <<" ">>, <<"7">>}

\* The texts of at most n tokens of TimeTokens, with a separator around each.
RECURSIVE TimeTextsOf(_)
TimeTextsOf(n) ==
    IF n = 0 THEN TimeSeparators
    ELSE TimeTextsOf(n - 1) \cup
         {t \o k \o s : t \in TimeTextsOf(n - 1), k \in TimeTokens, s \in TimeSeparators}

TimeTexts == TimeTextsOf(MaxTokens)

\* What the session of Spec is fed: an empty report, the two-line report,
\* one GiB in two lines, a line that is no number; no elapsed token, one, two.
SessionReports ==
    {<<>>, line_first \o <<"\n">> \o line_second,
     line_half_gib \o <<"\n">> \o line_half_gib, line_not_a_number}

SessionTimes ==
    {<<>>, time_plain, time_minutes \o <<" ">> \o time_plain}

-----------------------------------------------------------------------------
(* Specifications *)

Next ==
    \/ Start
    \/ VerifyBuild
    \/ MeasureAssignerHeap(SessionReports)
    \/ MeasureProofHeap(SessionReports)
    \/ MeasureAssignerTime(SessionTimes)
    \/ MeasureProofTime(SessionTimes)
    \/ DisplayResults
    \/ Exit
    \/ Unrecognised

Spec == Init /\ [][Next]_vars

\* One measurement, taken right after a successful start, on the wide texts.
InitParse ==
    /\ pc = "menu"
    /\ choice = ""
    /\ assigner_total_gb = None
    /\ proof_total_gb = None
    /\ assigner_formatted_time = None
    /\ proof_formatted_time = None
    /\ found = Files
    /\ commands = <<>>
    /\ returncodes = <<>>
    /\ output = <<>>
    /\ memory_table = NoTable
    /\ printed = <<>>
    /\ log = <<>>

NextParse ==
    \/ choice = "" /\ MeasureAssignerHeap(Reports)
    \/ choice = "" /\ MeasureProofHeap(Reports)
    \/ choice = "" /\ MeasureAssignerTime(TimeTexts)
    \/ choice = "" /\ MeasureProofTime(TimeTexts)

SpecParse == InitParse /\ [][NextParse]_vars

-----------------------------------------------------------------------------
(* Properties of the session (Spec) *)

AnyUnset ==
    \/ assigner_total_gb = None
    \/ assigner_formatted_time = None
    \/ proof_total_gb = None
    \/ proof_formatted_time = None

Logged(record) == \E k \in 1..Len(log) : log[k] = record

\* C1: display_results is all-or-nothing.  After a turn of choice 6: if one of
\* the four result fields is unset, the error "results are incomplete" is logged
\* and nothing is printed; if all four are set, exactly the assigner's and the
\* proof's memory (two decimals) and time are printed and no error is logged.
\* Nothing is printed by any other turn, and the turn changes no result field.
C1_DisplayAllOrNothing ==
    /\ [](printed # <<>> => choice = "6" /\ ~AnyUnset)
    /\ [](choice = "6" /\ AnyUnset => printed = <<>> /\ Logged(Incomplete))
    /\ [](choice = "6" /\ ~AnyUnset =>
            /\ ~Logged(Incomplete)
            /\ Len(printed) = 2
            /\ printed[1].subject = "1. Assigner"
            /\ printed[1].memory = format_2f(assigner_total_gb)
            /\ printed[1].time = assigner_formatted_time
            /\ printed[2].subject = "2. Proof"
            /\ printed[2].memory = format_2f(proof_total_gb)
            /\ printed[2].time = proof_formatted_time)
    /\ [][choice' = "6" => UNCHANGED results]_vars

\* C1 witness: a display turn that printed both subjects, one GB shown as 1.00.
C1_Witness ==
    /\ choice = "6"
    /\ Len(printed) = 2
    /\ printed[1].memory = <<1, 0>>
    /\ printed[2].time # None

\* C3: startup gating.  When a required file is missing at the start, the session
\* goes from start straight to exited, spawns no command and leaves the four
\* fields unset; nothing follows exited; commands are spawned only from the menu,
\* and the menu is entered only by a start whose verification found all files.
C3_StartupGating ==
    /\ [][pc = "start" /\ found' # Files =>
            /\ pc' = "exited"
            /\ commands' = <<>>
            /\ results' = <<None, None, None, None>>]_vars
    /\ [][pc # "exited"]_vars
    /\ [][commands' # <<>> => pc = "menu"]_vars
    /\ [][pc' = "menu" => pc = "menu" \/ (pc = "start" /\ found' = Files)]_vars
    /\ [](pc = "start" => results = <<None, None, None, None>> /\ commands = <<>>)

\* C3 witness: the session ended at the start with two files missing.
C3_Witness ==
    /\ pc = "exited"
    /\ choice = ""
    /\ found = {"template.crct"}
    /\ results = <<None, None, None, None>>

\* The list of missing files the last step's verify_build logged (<<>> if none).
MissingLogged ==
    IF \E k \in 1..Len(log) : log[k].msg = "Missing required build files"
    THEN log[CHOOSE k \in 1..Len(log) : log[k].msg = "Missing required build files"].files
    ELSE <<>>

\* C8: build verification is a pure predicate.  After the start check and after
\* every turn of choice 1: it returned true (no failure logged) exactly when all
\* three files were found, and it named every missing file once, in the order of
\* required_files, and no other; the turn changes no result field, and a failed
\* verification from the menu stays in the menu.
C8_VerifyBuildPure ==
    /\ []((choice = "1" \/ (choice = "" /\ pc # "start")) =>
            /\ ~Logged(BuildFailed) <=> found = Files
            /\ Logged(BuildFailed) <=> MissingLogged # <<>>
            /\ {MissingLogged[k] : k \in 1..Len(MissingLogged)} = Files \ found
            /\ Len(MissingLogged) = Cardinality(Files \ found)
            /\ \A j, k \in 1..Len(MissingLogged) :
                 j < k => \E x, y \in 1..Len(required_files) :
                            /\ x < y
                            /\ required_files[x] = MissingLogged[j]
                            /\ required_files[y] = MissingLogged[k])
    /\ [][choice' = "1" => UNCHANGED results /\ pc' = "menu"]_vars
    /\ [][pc = "start" => UNCHANGED results]_vars

\* C8 witness: a verification from the menu that failed with two files missing,
\* with a result field already set.
C8_Witness ==
    /\ choice = "1"
    /\ pc = "menu"
    /\ found = {"template.crct"}
    /\ MissingLogged = <<"template.ll", "template.tbl">>
    /\ assigner_total_gb # None

\* C10: each turn writes at most its own result field: choice 2 only the
\* assigner memory, 3 only the proof memory, 4 only the assigner time, 5 only
\* the proof time; every other turn none; and a memory turn whose report fails
\* to parse changes none.
C10_OwnFieldOnly ==
    [][ /\ choice' = "2" =>
             UNCHANGED <<proof_total_gb, assigner_formatted_time, proof_formatted_time>>
        /\ choice' = "3" =>
             UNCHANGED <<assigner_total_gb, assigner_formatted_time, proof_formatted_time>>
        /\ choice' = "4" =>
             UNCHANGED <<assigner_total_gb, proof_total_gb, proof_formatted_time>>
        /\ choice' = "5" =>
             UNCHANGED <<assigner_total_gb, proof_total_gb, assigner_formatted_time>>
        /\ choice' \notin {"2", "3", "4", "5"} => UNCHANGED results
        /\ memory_table'.raised # "" => UNCHANGED results ]_vars

\* C10 witness: a proof-memory turn has set its field while the assigner's
\* memory is still unset.
C10_Witness ==
    /\ choice = "3"
    /\ proof_total_gb # None
    /\ assigner_total_gb = None
    /\ assigner_formatted_time # None

-----------------------------------------------------------------------------
(* Properties of the parsers (SpecParse) *)

\* The k-th smallest element of a set of integers.
Nth(S, k) == CHOOSE x \in S : Cardinality({y \in S : y < x}) = k - 1

\* The lines of a text, from the places of its newlines.
LinesOf(text) ==
    LET brk == {0, Len(text) + 1} \cup {i \in 1..Len(text) : text[i] = "\n"}
    IN  [k \in 1..(Cardinality(brk) - 1) |->
           SubSeq(text, Nth(brk, k) + 1, Nth(brk, k + 1) - 1)]

\* The fields of a line: its maximal runs of characters that are no whitespace.
FieldsOf(line) ==
    LET starts == {i \in 1..Len(line) :
                     ~IsSpace(line[i]) /\ (i = 1 \/ IsSpace(line[i - 1]))}
        ends == {i \in 1..Len(line) :
                   ~IsSpace(line[i]) /\ (i = Len(line) \/ IsSpace(line[i + 1]))}
    IN  [k \in 1..Cardinality(starts) |-> SubSeq(line, Nth(starts, k), Nth(ends, k))]

AllDigits(f) == f # <<>> /\ \A k \in 1..Len(f) : IsDigit(f[k])

\* A comma-grouped number: digits and commas, at least one digit.
Grouped(f) ==
    /\ \A k \in 1..Len(f) : IsDigit(f[k]) \/ f[k] = ","
    /\ \E k \in 1..Len(f) : IsDigit(f[k])

NumberOf(f) == int(SelectSeq(f, IsDigit))

\* The data-row shape: a first field of digits, a second that starts with one.
RowShape(line) ==
    /\ Len(FieldsOf(line)) >= 2
    /\ AllDigits(FieldsOf(line)[1])
    /\ IsDigit(FieldsOf(line)[2][1])

DataLine(line) == RowShape(line) /\ Len(FieldsOf(line)) >= 6

WellFormed(line) ==
    DataLine(line) /\ \A c \in 2..6 : Grouped(FieldsOf(line)[c])

RECURSIVE SumOver(_, _, _)
SumOver(rows, c, k) == IF k = 0 THEN 0 ELSE SumOver(rows, c, k - 1) + rows[k].cols[c]

MemoryField == IF choice = "2" THEN assigner_total_gb ELSE proof_total_gb

\* C4: for a report whose data lines (row shape, at least 6 fields) are all
\* well-formed and number N >= 1, the parser raises nothing and returns N+1
\* rows: the N data lines in input order with their numbers, then the row
\* labelled Total whose five columns are the column sums of the N rows; and the
\* field stored by the memory turn is that row's total(B) divided by 2^30.
C4_TotalRowLast ==
    choice \in {"2", "3"} =>
        LET lines == LinesOf(output)
            data == {i \in 1..Len(lines) : DataLine(lines[i])}
            N == Cardinality(data)
            rows == memory_table.rows
        IN  (N >= 1 /\ \A i \in data : WellFormed(lines[i])) =>
              /\ pc = "menu"
              /\ memory_table.raised = ""
              /\ Len(rows) = N + 1
              /\ \A k \in 1..N :
                   LET f == FieldsOf(lines[Nth(data, k)])
                   IN  /\ rows[k].n = sample_n(NumberOf(f[1]))
                       /\ \A c \in 1..5 : rows[k].cols[c] = NumberOf(f[c + 1])
              /\ rows[N + 1].n = label_n("Total")
              /\ \A c \in 1..5 : rows[N + 1].cols[c] = SumOver(rows, c, N)
              /\ Len(MemoryField) = 2
              /\ MemoryField[1] * GiB + MemoryField[2] = rows[N + 1].cols[2]
              /\ MemoryField[2] >= 0 /\ MemoryField[2] < GiB

\* C4 witness: two data lines of half a GiB each gave three rows and exactly 1 GB.
C4_Witness ==
    /\ choice = "2"
    /\ memory_table.raised = ""
    /\ Len(memory_table.rows) = 3
    /\ memory_table.rows[1].cols[2] = 536870912
    /\ assigner_total_gb = <<1, 0>>

\* C5: for a report none of whose lines has the data-row shape (the empty text
\* included), the parser returns only the row labelled Total, all sums zero, and
\* raises nothing.
C5_NoDataOnlyTotalRow ==
    (/\ choice \in {"2", "3"}
     /\ \A i \in 1..Len(LinesOf(output)) : ~RowShape(LinesOf(output)[i]))
    => /\ memory_table.raised = ""
       /\ Len(memory_table.rows) = 1
       /\ memory_table.rows[1].n = label_n("Total")
       /\ \A c \in 1..5 : memory_table.rows[1].cols[c] = 0

\* Whether <minutes>:<seconds>.<fraction>elapsed stands at i, with the colon at a,
\* the point at b and the word at c.
TokenAt(t, i, a, b, c) ==
    /\ i < a /\ a + 1 < b /\ b + 1 < c /\ c + 6 <= Len(t)
    /\ \A k \in i..(a - 1) : IsDigit(t[k])
    /\ t[a] = ":"
    /\ \A k \in (a + 1)..(b - 1) : IsDigit(t[k])
    /\ t[b] = "."
    /\ \A k \in (b + 1)..(c - 1) : IsDigit(t[k])
    /\ SubSeq(t, c, c + 6) = elapsed

\* The indices of t at which a token starts.
TokenStarts(t) ==
    {i \in 1..Len(t) :
       /\ IsDigit(t[i])
       /\ \E a \in (i + 1)..Len(t) :
            /\ t[a] = ":"
            /\ \A k \in i..(a - 1) : IsDigit(t[k])
            /\ \E b \in (a + 2)..Len(t) :
                 /\ t[b] = "."
                 /\ \A k \in (a + 1)..(b - 1) : IsDigit(t[k])
                 /\ \E c \in (b + 2)..Len(t) : TokenAt(t, i, a, b, c)}

\* minutes * 60 + seconds of the token that starts at i.
TokenSeconds(t, i) ==
    LET a == CHOOSE a \in (i + 1)..Len(t) :
                 t[a] = ":" /\ \A k \in i..(a - 1) : IsDigit(t[k])
        b == CHOOSE b \in (a + 2)..Len(t) :
                 t[b] = "." /\ \A k \in (a + 1)..(b - 1) : IsDigit(t[k])
        c == CHOOSE c \in (b + 2)..Len(t) : TokenAt(t, i, a, b, c)
    IN  <<NumberOf(SubSeq(t, i, a - 1)) * 60 + NumberOf(SubSeq(t, a + 1, b - 1)),
          StripZeros(SubSeq(t, b + 1, c - 1))>>

TimeField == IF choice = "4" THEN assigner_formatted_time ELSE proof_formatted_time

\* C7: the time a time turn stores is minutes*60+seconds of the first token
\* <m>:<s>elapsed of the text (the one that starts leftmost), whatever follows
\* it; for a text without such a token it is None; and nothing is raised.
C7_FirstElapsedToken ==
    choice \in {"4", "5"} =>
        LET starts == TokenStarts(output)
        IN  /\ pc = "menu"
            /\ IF starts = {}
               THEN TimeField = None
               ELSE TimeField = TokenSeconds(output, Nth(starts, 1))

\* C7 witness: a text with several tokens, the last of another value than the
\* first, whose first token was stored.
C7_Witness ==
    /\ choice = "4"
    /\ Cardinality(TokenStarts(output)) >= 2
    /\ assigner_formatted_time = <<62, <<"5">>>>
    /\ TokenSeconds(output, Nth(TokenStarts(output), Cardinality(TokenStarts(output))))
         # assigner_formatted_time

-----------------------------------------------------------------------------
(* Statements the code does not meet *)

\* C2: the turn of choice 4 runs the assigner under the timing wrapper (and the
\* turn of choice 5 the proof generator), so the assigner's time always comes
\* from a run of the assigner binary.
C2_AssignerTimeRunsAssigner ==
    /\ choice = "4" => commands = <<measure_assigner_execution_time>>
    /\ choice = "5" => commands = <<measure_proof_generation_execution_time>>

\* C6: a command that exits non-zero is not fatal: a turn of choice 2 to 5 one of
\* whose commands exited non-zero ends in the menu, with the next prompt shown;
\* it neither ends the session nor lets an exception leave the loop.
C6_CommandFailureNotFatal ==
    [][(/\ pc = "menu"
        /\ choice' \in {"2", "3", "4", "5"}
        /\ \E k \in 1..Len(returncodes') : returncodes'[k] # 0)
       => pc' = "menu"]_vars

\* C9: the result fields are monotone: a completed measurement turn leaves its
\* field set, and a field that is set is never unset again.
C9_ResultsMonotone ==
    /\ [][ /\ assigner_total_gb # None => assigner_total_gb' # None
           /\ proof_total_gb # None => proof_total_gb' # None
           /\ assigner_formatted_time # None => assigner_formatted_time' # None
           /\ proof_formatted_time # None => proof_formatted_time' # None ]_vars
    /\ [][ pc' = "menu" =>
             /\ choice' = "2" => assigner_total_gb' # None
             /\ choice' = "3" => proof_total_gb' # None
             /\ choice' = "4" => assigner_formatted_time' # None
             /\ choice' = "5" => proof_formatted_time' # None ]_vars

====
